---- MODULE Spec2Model ----
(***************************************************************************)
(* Model of cmd/hzn/control.go: controlServer.Run, the start-up sequence   *)
(* of the control server, and the goroutines it starts (Vault token        *)
(* renewal, hub certificate refresh, healthz, background worker).          *)
(*                                                                         *)
(* Time is counted in hours: the two tickers of the file fire every        *)
(* time.Hour, and RenewSelf asks for 86400 s = 24 hours.                   *)
(***************************************************************************)
EXTENDS Integers, Sequences, FiniteSets, TLC

\* ---------------------------------------------------------------- bounds
MaxTime == 3        \* the clock runs from 0 to MaxTime hours
MaxLease == 2       \* leases the backend grants: 1..MaxLease hours
MaxVersion == 2     \* distinct certificate materials the manager can return
MaxRefresh == 2     \* ticks of the certificate refresh loop that are recorded

\* ------------------------------------------------------ program constants
TickerPeriod == 1       \* time.NewTicker(time.Hour), in hours
RefreshPeriod == 1      \* periodic.Run(ctx, time.Hour, ...), in hours
RenewIncrement == 24    \* RenewSelf(86400), in hours

\* ------------------------------------------------------------ value sets
Versions == 1..MaxVersion
LeaseGrants == 1..MaxLease

Nil == [kind |-> "nil", v |-> 0]
CertBytes(v) == [kind |-> "cert", v |-> v]
KeyBytes(v) == [kind |-> "key", v |-> v]

\* values of HUB_DOMAIN, as strings of characters; <<>> is the unset variable
Domains == { <<"*", ".", "h">>, <<"h">>, <<"*", "h">> }
NoDomain == << >>

NoCred == [issuedAt |-> 0 - 1, lease |-> 0]

VARIABLES
    pc,            \* position of the main goroutine in Run
    procState,     \* "running", or "fatal" once log.Fatal has exited the process
    fatalAt,       \* the call site of the log.Fatal that ended the process
    now,           \* wall clock, in hours
    token,         \* vaultClient.Token(): "" or the token's origin
    idFile,        \* the service account token file: "unopened", "absent", "denied", "open", "closed"
    loginResult,   \* outcome of the auth/kubernetes/login write
    cred,          \* the lease of the token obtained by the login
    renewLoop,     \* the renewal goroutine: "none", "waiting"
    renewNext,     \* time of the next tick of the renewal ticker
    renewAttempts, \* renewals attempted during the current lease, before it ran out
    renewFails,    \* consecutive failed RenewSelf calls
    useAWS,        \* USE_AWS != "0"
    domain,        \* HUB_DOMAIN
    tlsmgr,        \* "nil" or "mgr"
    mgrCur,        \* the material version the manager obtained at start-up (0: none)
    healthz,       \* the healthz goroutine has been started
    ctx,           \* "none" before line 193, then the context's description
    ctxCancelled,  \* ctx.Done() is closed
    cert, key,     \* the locals of line 195-196
    hubDomain,     \* the local of line 240
    store,         \* the hub TLS material held by the control.Server
    setCalls,      \* number of SetHubTLS calls made so far
    refreshLoop,   \* the periodic.Run goroutine: "none", "running"
    refreshCtx,    \* the context handed to periodic.Run
    ticks,         \* the refresh ticks so far: [ok, fetched, before, after]
    tlsCert,       \* the local of line 245: 0 for nil, or the certificate's version
    lcfg,          \* the listener's tls.Config: [source, cert]
    hs,            \* the http.Server has been constructed
    renewHandler,  \* RegisterRenewHandler has returned
    worker,        \* the worker goroutine: "none", "running", "returned"
    workerCtx,     \* the context handed to worker.Run
    workerErr,     \* what worker.Run returned
    workerLog,     \* what the worker goroutine logged about it
    refreshNext,   \* time of the next tick of periodic.Run's ticker
    notBefore,     \* the local notBefore of snakeOilCert (line 358), -1 before
    lastReq,       \* the last request the http.Server's Handler has dispatched
    observed       \* what the last reader of the hub TLS material saw

mainVars == <<pc, procState, fatalAt>>
vaultVars == <<token, idFile, loginResult, cred, renewLoop, renewNext,
               renewAttempts, renewFails>>
cfgVars == <<useAWS, domain, tlsmgr, mgrCur>>
ctxVars == <<healthz, ctx, ctxCancelled>>
tlsVars == <<cert, key, hubDomain, store, setCalls, tlsCert, lcfg, hs, renewHandler>>
refreshVars == <<refreshLoop, refreshCtx, refreshNext, ticks>>
workerVars == <<worker, workerCtx, workerErr, workerLog>>
serveVars == <<notBefore, lastReq, observed>>

vars == <<mainVars, now, vaultVars, cfgVars, ctxVars, tlsVars, refreshVars, workerVars,
          serveVars>>

\* ------------------------------------------------------------- helpers
EmptyStore == [cert |-> Nil, key |-> Nil, domain |-> NoDomain]
NoConfig == [source |-> "none", cert |-> 0, notBefore |-> 0, notAfter |-> 0]
NoRequest == [proto |-> 0, ctype |-> << >>, handler |-> {}]
NotObserved == [cert |-> Nil, key |-> Nil, domain |-> <<"-">>]

Running == procState = "running"

\* log.Fatal: the process exits at once, from whichever call site
Fatal(site) ==
    /\ procState' = "fatal"
    /\ fatalAt' = site
    /\ pc' = pc

\* the main goroutine moves on to the next statement
Goto(next) ==
    /\ pc' = next
    /\ UNCHANGED <<procState, fatalAt>>

At(label) == Running /\ pc = label

\* strings.HasPrefix
HasPrefix(s, prefix) ==
    /\ Len(s) >= Len(prefix)
    /\ SubSeq(s, 1, Len(prefix)) = prefix

\* hubDomain := domain; if strings.HasPrefix(hubDomain, "*.") { hubDomain = hubDomain[2:] }
TrimWildcard(d) ==
    IF HasPrefix(d, <<"*", ".">>) THEN SubSeq(d, 3, Len(d)) ELSE d

\* s.SetHubTLS(cert, key, domain): the three values replace the held ones
SetHubTLS(c, k, d) ==
    /\ store' = [cert |-> c, key |-> k, domain |-> d]
    /\ setCalls' = setCalls + 1

Init ==
    /\ pc = "new_client"
    /\ procState = "running"
    /\ fatalAt = "none"
    /\ now = 0
    /\ token \in {"", "ambient"}
    /\ idFile = "unopened"
    /\ loginResult = "none"
    /\ cred = NoCred
    /\ renewLoop = "none"
    /\ renewNext = 0
    /\ renewAttempts = 0
    /\ renewFails = 0
    /\ useAWS = FALSE
    /\ domain = NoDomain
    /\ tlsmgr = "nil"
    /\ mgrCur = 0
    /\ healthz = FALSE
    /\ ctx = "none"
    /\ ctxCancelled = FALSE
    /\ cert = Nil
    /\ key = Nil
    /\ hubDomain = NoDomain
    /\ store = EmptyStore
    /\ setCalls = 0
    /\ refreshLoop = "none"
    /\ refreshCtx = "none"
    /\ ticks = << >>
    /\ tlsCert = 0
    /\ lcfg = NoConfig
    /\ hs = FALSE
    /\ renewHandler = FALSE
    /\ worker = "none"
    /\ workerCtx = "none"
    /\ workerErr = "none"
    /\ workerLog = "none"
    /\ refreshNext = 0
    /\ notBefore = 0 - 1
    /\ lastReq = NoRequest
    /\ observed = NotObserved

\* ------------------------------------------------- Vault client and login
\* api.NewClient(vaultCfg)
NewVaultClient ==
    /\ At("new_client")
    /\ \E ok \in BOOLEAN :
          IF ok THEN Goto("check_token") ELSE Fatal("new_client")
    /\ UNCHANGED <<now, vaultVars, cfgVars, ctxVars, tlsVars, refreshVars, workerVars,
                   serveVars>>

\* a bootstrap that treats a failed os.Open as fatal
CheckTokenOpenFatal ==
    /\ At("check_token")
    /\ IF token = ""
          THEN \E open \in {"ok", "absent", "denied"} :
                  IF open = "ok"
                     THEN idFile' = "open" /\ Goto("read_idfile")
                     ELSE idFile' = open /\ Fatal("open_idfile")
          ELSE idFile' = idFile /\ Goto("database")
    /\ UNCHANGED <<now, token, loginResult, cred, renewLoop, renewNext,
                   renewAttempts, renewFails,
                   cfgVars, ctxVars, tlsVars, refreshVars, workerVars,
                   serveVars>>

\* if vaultClient.Token() == "" { f, err := os.Open(...); if err == nil { ...
CheckToken ==
    /\ At("check_token")
    /\ IF token = ""
          THEN \E open \in {"ok", "absent", "denied"} :
                  IF open = "ok"
                     THEN idFile' = "open" /\ Goto("read_idfile")
                     ELSE idFile' = open /\ Goto("database")
          ELSE idFile' = idFile /\ Goto("database")
    /\ UNCHANGED <<now, token, loginResult, cred, renewLoop, renewNext,
                   renewAttempts, renewFails,
                   cfgVars, ctxVars, tlsVars, refreshVars, workerVars,
                   serveVars>>

\* data, err := ioutil.ReadAll(f); if err != nil { log.Fatal(err) }; f.Close()
ReadIdentity ==
    /\ At("read_idfile")
    /\ \E ok \in BOOLEAN :
          IF ok
             THEN idFile' = "closed" /\ Goto("login")
             ELSE idFile' = idFile /\ Fatal("read_idfile")
    /\ UNCHANGED <<now, token, loginResult, cred, renewLoop, renewNext,
                   renewAttempts, renewFails,
                   cfgVars, ctxVars, tlsVars, refreshVars, workerVars,
                   serveVars>>

\* a Login that does not check sec == nil before going on
LoginUnchecked ==
    /\ At("login")
    /\ \E res \in {"err", "nil", "ok"}, lease \in LeaseGrants :
          /\ loginResult' = res
          /\ IF res = "err"
                THEN /\ Fatal("login_err")
                     /\ UNCHANGED <<token, cred, renewLoop, renewNext>>
                ELSE /\ Goto("database")
                     /\ token' = "login"
                     /\ cred' = IF res = "ok" THEN [issuedAt |-> now, lease |-> lease]
                                ELSE cred
                     /\ renewLoop' = "waiting"
                     /\ renewNext' = now + TickerPeriod
    /\ UNCHANGED <<now, idFile, renewAttempts, renewFails,
                   cfgVars, ctxVars, tlsVars, refreshVars, workerVars,
                   serveVars>>

\* sec, err := vaultClient.Logical().Write("auth/kubernetes/login", ...)
\* fatal on err and on sec == nil; else SetToken and start the renewal goroutine
Login ==
    /\ At("login")
    /\ \E res \in {"err", "nil", "ok"}, lease \in LeaseGrants :
          /\ loginResult' = res
          /\ CASE res = "err" ->
                    /\ Fatal("login_err")
                    /\ UNCHANGED <<token, cred, renewLoop, renewNext>>
               [] res = "nil" ->
                    /\ Fatal("login_nil")
                    /\ UNCHANGED <<token, cred, renewLoop, renewNext>>
               [] res = "ok" ->
                    /\ Goto("database")
                    /\ token' = "login"
                    /\ cred' = [issuedAt |-> now, lease |-> lease]
                    /\ renewLoop' = "waiting"
                    /\ renewNext' = now + TickerPeriod
    /\ UNCHANGED <<now, idFile, renewAttempts, renewFails,
                   cfgVars, ctxVars, tlsVars, refreshVars, workerVars,
                   serveVars>>

\* ------------------------------------------------ the renewal goroutine
\* a renewal goroutine that gives up on the first failed RenewSelf
RenewTickStopOnError ==
    /\ Running
    /\ renewLoop = "waiting"
    /\ now = renewNext
    /\ renewNext' = renewNext + TickerPeriod
    /\ \E ok \in BOOLEAN, lease \in LeaseGrants :
          IF ok /\ now < cred.issuedAt + cred.lease
             THEN /\ cred' = [issuedAt |-> now, lease |-> lease]
                  /\ renewAttempts' = 0
                  /\ renewFails' = 0
                  /\ renewLoop' = renewLoop
             ELSE /\ cred' = cred
                  /\ renewAttempts' = IF now < cred.issuedAt + cred.lease
                                      THEN renewAttempts + 1 ELSE renewAttempts
                  /\ renewFails' = renewFails + 1
                  /\ renewLoop' = "exited"
    /\ UNCHANGED <<mainVars, now, token, idFile, loginResult,
                   cfgVars, ctxVars, tlsVars, refreshVars, workerVars,
                   serveVars>>

\* for { <-tic.C; _, err := RenewSelf(86400); if err != nil { log.Printf(...) } }
\* The backend grants any lease up to the increment asked for, and renews
\* only a token whose lease has not run out.
RenewTick ==
    /\ Running
    /\ renewLoop = "waiting"
    /\ now = renewNext
    /\ renewNext' = renewNext + TickerPeriod
    /\ renewLoop' = renewLoop
    /\ \E ok \in BOOLEAN, lease \in {l \in LeaseGrants : l <= RenewIncrement} :
          IF ok /\ now < cred.issuedAt + cred.lease
             THEN /\ cred' = [issuedAt |-> now, lease |-> lease]
                  /\ renewAttempts' = 0
                  /\ renewFails' = 0
             ELSE /\ cred' = cred
                  /\ renewAttempts' = IF now < cred.issuedAt + cred.lease
                                      THEN renewAttempts + 1 ELSE renewAttempts
                  /\ renewFails' = renewFails + 1
    /\ UNCHANGED <<mainVars, now, token, idFile, loginResult,
                   cfgVars, ctxVars, tlsVars, refreshVars, workerVars,
                   serveVars>>

\* An hour passes. A due tick of the renewal ticker or of the refresh ticker
\* is served before the next hour begins: the goroutines are never late.
AdvanceClock ==
    /\ Running
    /\ now < MaxTime
    /\ renewLoop = "waiting" => now < renewNext
    /\ (refreshLoop = "running" /\ Len(ticks) < MaxRefresh) => now < refreshNext
    /\ now' = now + 1
    /\ UNCHANGED <<mainVars, vaultVars, cfgVars, ctxVars, tlsVars, refreshVars, workerVars,
                   serveVars>>

\* ------------------------------------------------------- configuration
\* DATABASE_URL and gorm.Open
OpenDatabase ==
    /\ At("database")
    /\ \E res \in {"no_url", "open_err", "ok"} :
          CASE res = "no_url" -> Fatal("database_url")
            [] res = "open_err" -> Fatal("gorm_open")
            [] res = "ok" -> Goto("bucket")
    /\ UNCHANGED <<now, vaultVars, cfgVars, ctxVars, tlsVars, refreshVars, workerVars,
                   serveVars>>

\* S3_BUCKET, USE_AWS and session.NewSession
InitAWS ==
    /\ At("bucket")
    /\ \E bucket \in BOOLEAN, aws \in BOOLEAN, ok \in BOOLEAN :
          IF ~bucket
             THEN Fatal("s3_bucket") /\ useAWS' = useAWS
             ELSE /\ useAWS' = aws
                  /\ IF aws /\ ~ok THEN Fatal("aws_session") ELSE Goto("domain")
    /\ UNCHANGED <<now, vaultVars, domain, tlsmgr, mgrCur, ctxVars, tlsVars,
                   refreshVars, workerVars,
                   serveVars>>

\* HUB_DOMAIN
LoadDomain ==
    /\ At("domain")
    /\ \E d \in Domains \cup {NoDomain} :
          IF d = NoDomain
             THEN Fatal("hub_domain") /\ domain' = domain
             ELSE domain' = d /\ Goto("new_manager")
    /\ UNCHANGED <<now, vaultVars, useAWS, tlsmgr, mgrCur, ctxVars, tlsVars,
                   refreshVars, workerVars,
                   serveVars>>

\* USE_TLS_MANAGER and tlsmanage.NewManager
NewManager ==
    /\ At("new_manager")
    /\ \E useTLSManager \in BOOLEAN, ok \in BOOLEAN :
          IF useTLSManager
             THEN IF ok
                     THEN tlsmgr' = "mgr" /\ Goto("route53")
                     ELSE tlsmgr' = tlsmgr /\ Fatal("new_manager")
             ELSE tlsmgr' = tlsmgr /\ Goto("route53")
    /\ UNCHANGED <<now, vaultVars, useAWS, domain, mgrCur, ctxVars, tlsVars,
                   refreshVars, workerVars,
                   serveVars>>

\* if useAWS && useTLSManager { ZONE_ID; tlsmgr.SetupRoute53(sess, zoneId) }
SetupRoute53 ==
    /\ At("route53")
    /\ IF useAWS /\ tlsmgr # "nil"
          THEN \E res \in {"no_zone", "err", "ok"} :
                  CASE res = "no_zone" -> Fatal("zone_id")
                    [] res = "err" -> Fatal("setup_route53")
                    [] res = "ok" -> Goto("tokens")
          ELSE Goto("tokens")
    /\ UNCHANGED <<now, vaultVars, cfgVars, ctxVars, tlsVars, refreshVars, workerVars,
                   serveVars>>

\* REGISTER_TOKEN and OPS_TOKEN (ASN_DB_PATH, HUB_* and PORT are optional)
LoadTokens ==
    /\ At("tokens")
    /\ \E res \in {"no_register", "no_ops", "ok"} :
          CASE res = "no_register" -> Fatal("register_token")
            [] res = "no_ops" -> Fatal("ops_token")
            [] res = "ok" -> Goto("healthz")
    /\ UNCHANGED <<now, vaultVars, cfgVars, ctxVars, tlsVars, refreshVars, workerVars,
                   serveVars>>

\* go StartHealthz(L)
StartHealthz ==
    /\ At("healthz")
    /\ healthz' = TRUE
    /\ Goto("ctx")
    /\ UNCHANGED <<now, vaultVars, cfgVars, ctx, ctxCancelled, tlsVars,
                   refreshVars, workerVars,
                   serveVars>>

\* ctx := hclog.WithContext(context.Background(), L): a value context over
\* the background context, which has no cancel function
MakeContext ==
    /\ At("ctx")
    /\ ctx' = "background+logger"
    /\ ctxCancelled' = FALSE
    /\ Goto("hub_material")
    /\ UNCHANGED <<now, vaultVars, cfgVars, healthz, tlsVars, refreshVars, workerVars,
                   serveVars>>

\* ------------------------------------------- certificate material, server
\* a start-up that goes on to build the server without fetching the material
HubMaterialNotFetched ==
    /\ At("hub_material")
    /\ Goto("new_server")
    /\ UNCHANGED <<now, vaultVars, cfgVars, ctxVars, tlsVars, refreshVars, workerVars,
                   serveVars>>

\* if tlsmgr != nil { cert, key, err = tlsmgr.HubMaterial(ctx) }
HubMaterial ==
    /\ At("hub_material")
    /\ IF tlsmgr # "nil"
          THEN \E ok \in BOOLEAN, v \in Versions :
                  IF ok
                     THEN /\ cert' = CertBytes(v)
                          /\ key' = KeyBytes(v)
                          /\ mgrCur' = v
                          /\ Goto("new_server")
                     ELSE /\ Fatal("hub_material")
                          /\ UNCHANGED <<cert, key, mgrCur>>
          ELSE /\ Goto("new_server")
               /\ UNCHANGED <<cert, key, mgrCur>>
    /\ UNCHANGED <<now, vaultVars, useAWS, domain, tlsmgr, ctxVars, hubDomain, store,
                   setCalls, tlsCert, lcfg, hs, renewHandler, refreshVars, workerVars,
                   serveVars>>

\* control.NewConsulLockManager and control.NewServer; the server's hub TLS
\* material starts out unset
NewServer ==
    /\ At("new_server")
    /\ \E res \in {"lock_err", "server_err", "ok"} :
          CASE res = "lock_err" -> Fatal("lock_manager") /\ store' = store
            [] res = "server_err" -> Fatal("new_server") /\ store' = store
            [] res = "ok" -> Goto("hub_domain") /\ store' = EmptyStore
    /\ UNCHANGED <<now, vaultVars, cfgVars, ctxVars, cert, key, hubDomain,
                   setCalls, tlsCert, lcfg, hs, renewHandler, refreshVars, workerVars,
                   serveVars>>

\* the cleanup job registration, then hubDomain (lines 236-245)
ComputeHubDomain ==
    /\ At("hub_domain")
    /\ hubDomain' = TrimWildcard(domain)
    /\ tlsCert' = 0
    /\ IF tlsmgr # "nil" THEN Goto("set_hub_tls") ELSE Goto("tls_config")
    /\ UNCHANGED <<now, vaultVars, cfgVars, ctxVars, cert, key, store,
                   setCalls, lcfg, hs, renewHandler, refreshVars, workerVars,
                   serveVars>>

\* a start-up that forgets to hand the fetched material to the server
InstallHubTLSSkipped ==
    /\ At("set_hub_tls")
    /\ Goto("start_refresh")
    /\ UNCHANGED <<now, vaultVars, cfgVars, ctxVars, cert, key, hubDomain, store,
                   setCalls, tlsCert, lcfg, hs, renewHandler, refreshVars, workerVars,
                   serveVars>>

\* a start-up that hands the server the domain as configured, wildcard and all
InstallHubTLSRawDomain ==
    /\ At("set_hub_tls")
    /\ SetHubTLS(cert, key, domain)
    /\ Goto("start_refresh")
    /\ UNCHANGED <<now, vaultVars, cfgVars, ctxVars, cert, key, hubDomain,
                   tlsCert, lcfg, hs, renewHandler, refreshVars, workerVars,
                   serveVars>>

\* s.SetHubTLS(cert, key, hubDomain)
InstallHubTLS ==
    /\ At("set_hub_tls")
    /\ SetHubTLS(cert, key, hubDomain)
    /\ Goto("start_refresh")
    /\ UNCHANGED <<now, vaultVars, cfgVars, ctxVars, cert, key, hubDomain,
                   tlsCert, lcfg, hs, renewHandler, refreshVars, workerVars,
                   serveVars>>

\* go periodic.Run(ctx, time.Hour, func() { ... })
StartRefresh ==
    /\ At("start_refresh")
    /\ refreshLoop' = "running"
    /\ refreshCtx' = ctx
    /\ refreshNext' = now + RefreshPeriod
    /\ Goto("certificate")
    /\ UNCHANGED <<now, vaultVars, cfgVars, ctxVars, tlsVars, ticks, workerVars,
                   serveVars>>

\* a start-up that drops the certificate: tlsCert stays nil
CertificateNotKept ==
    /\ At("certificate")
    /\ \E ok \in BOOLEAN :
          IF ok
             THEN tlsCert' = tlsCert /\ Goto("tls_config")
             ELSE tlsCert' = tlsCert /\ Fatal("certificate")
    /\ UNCHANGED <<now, vaultVars, cfgVars, ctxVars, cert, key, hubDomain, store,
                   setCalls, lcfg, hs, renewHandler, refreshVars, workerVars,
                   serveVars>>

\* what tlsmgr.Certificate() materializes: the certificate obtained at start-up
ManagerCertificate == mgrCur

\* cert, err := tlsmgr.Certificate(); tlsCert = &cert
Certificate ==
    /\ At("certificate")
    /\ \E ok \in BOOLEAN :
          IF ok
             THEN tlsCert' = ManagerCertificate /\ Goto("tls_config")
             ELSE tlsCert' = tlsCert /\ Fatal("certificate")
    /\ UNCHANGED <<now, vaultVars, cfgVars, ctxVars, cert, key, hubDomain, store,
                   setCalls, lcfg, hs, renewHandler, refreshVars, workerVars,
                   serveVars>>

\* ---------------------------------------------- the refresh goroutine
\* a refresh closure that installs what RefreshFromVault returned without
\* looking at err: on failure that is (nil, nil)
RefreshTickIgnoreErr ==
    /\ Running
    /\ refreshLoop = "running"
    /\ ~ctxCancelled
    /\ Len(ticks) < MaxRefresh
    /\ now = refreshNext
    /\ refreshNext' = refreshNext + RefreshPeriod
    /\ \E ok \in BOOLEAN, v \in Versions :
          IF ok
             THEN /\ SetHubTLS(CertBytes(v), KeyBytes(v), hubDomain)
                  /\ ticks' = Append(ticks, [ok |-> TRUE, fetched |-> v,
                                             before |-> store, after |-> store'])
             ELSE /\ SetHubTLS(Nil, Nil, hubDomain)
                  /\ ticks' = Append(ticks, [ok |-> FALSE, fetched |-> 0,
                                             before |-> store, after |-> store'])
    /\ UNCHANGED <<mainVars, now, vaultVars, cfgVars, ctxVars,
                   cert, key, hubDomain, tlsCert, lcfg, hs, renewHandler,
                   refreshLoop, refreshCtx, workerVars,
                   serveVars>>

\* a refresh closure that installs the new certificate with the key held before
RefreshTickKeepKey ==
    /\ Running
    /\ refreshLoop = "running"
    /\ ~ctxCancelled
    /\ Len(ticks) < MaxRefresh
    /\ now = refreshNext
    /\ refreshNext' = refreshNext + RefreshPeriod
    /\ \E ok \in BOOLEAN, v \in Versions :
          IF ok
             THEN /\ SetHubTLS(CertBytes(v), store.key, hubDomain)
                  /\ ticks' = Append(ticks, [ok |-> TRUE, fetched |-> v,
                                             before |-> store, after |-> store'])
             ELSE /\ UNCHANGED <<store, setCalls>>
                  /\ ticks' = Append(ticks, [ok |-> FALSE, fetched |-> 0,
                                             before |-> store, after |-> store'])
    /\ UNCHANGED <<mainVars, now, vaultVars, cfgVars, ctxVars,
                   cert, key, hubDomain, tlsCert, lcfg, hs, renewHandler,
                   refreshLoop, refreshCtx, workerVars,
                   serveVars>>

\* a refresh closure that also swaps the certificate of the listener's config
RefreshTickSwapsListener ==
    /\ Running
    /\ refreshLoop = "running"
    /\ ~ctxCancelled
    /\ Len(ticks) < MaxRefresh
    /\ now = refreshNext
    /\ refreshNext' = refreshNext + RefreshPeriod
    /\ \E ok \in BOOLEAN, v \in Versions :
          IF ok
             THEN /\ SetHubTLS(CertBytes(v), KeyBytes(v), hubDomain)
                  /\ lcfg' = IF lcfg.source = "managed"
                              THEN [lcfg EXCEPT !.cert = v] ELSE lcfg
                  /\ ticks' = Append(ticks, [ok |-> TRUE, fetched |-> v,
                                             before |-> store, after |-> store'])
             ELSE /\ UNCHANGED <<store, setCalls, lcfg>>
                  /\ ticks' = Append(ticks, [ok |-> FALSE, fetched |-> 0,
                                             before |-> store, after |-> store'])
    /\ UNCHANGED <<mainVars, now, vaultVars, cfgVars, ctxVars,
                   cert, key, hubDomain, tlsCert, hs, renewHandler,
                   refreshLoop, refreshCtx, workerVars,
                   serveVars>>

\* One tick of periodic.Run's loop, which runs the closure until ctx is done:
\*   cert, key, err := tlsmgr.RefreshFromVault()
\*   if err != nil { L.Error(...) } else { s.SetHubTLS(cert, key, hubDomain) }
RefreshTick ==
    /\ Running
    /\ refreshLoop = "running"
    /\ ~ctxCancelled
    /\ Len(ticks) < MaxRefresh
    /\ now = refreshNext
    /\ refreshNext' = refreshNext + RefreshPeriod
    /\ \E ok \in BOOLEAN, v \in Versions :
          IF ok
             THEN /\ SetHubTLS(CertBytes(v), KeyBytes(v), hubDomain)
                  /\ ticks' = Append(ticks, [ok |-> TRUE, fetched |-> v,
                                             before |-> store, after |-> store'])
             ELSE /\ UNCHANGED <<store, setCalls>>
                  /\ ticks' = Append(ticks, [ok |-> FALSE, fetched |-> 0,
                                             before |-> store, after |-> store'])
    /\ UNCHANGED <<mainVars, now, vaultVars, cfgVars, ctxVars,
                   cert, key, hubDomain, tlsCert, lcfg, hs, renewHandler,
                   refreshLoop, refreshCtx, workerVars,
                   serveVars>>

\* ---------------------------------------------------------- the listener
\* a start-up without the self-signed fallback: lcfg stays nil
BuildTLSConfigNoFallback ==
    /\ At("tls_config")
    /\ lcfg' = IF tlsmgr # "nil" /\ tlsCert # 0
                THEN [source |-> "managed", cert |-> tlsCert,
                      notBefore |-> 0, notAfter |-> 0]
                ELSE lcfg
    /\ Goto("http_server")
    /\ UNCHANGED <<now, vaultVars, cfgVars, ctxVars, cert, key, hubDomain, store,
                   setCalls, tlsCert, hs, renewHandler, refreshVars, workerVars,
                   serveVars>>

\* gRPC server registration, then lcfg (lines 269-288): the managed
\* certificate if there is one, else the call of snakeOilCert("127.0.0.1:24402"),
\* here up to notBefore := time.Now() (line 358); making the key or the
\* serial number can fail, which is fatal
BuildTLSConfig ==
    /\ At("tls_config")
    /\ IF tlsmgr # "nil" /\ tlsCert # 0
          THEN /\ lcfg' = [source |-> "managed", cert |-> tlsCert,
                           notBefore |-> 0, notAfter |-> 0]
               /\ notBefore' = notBefore
               /\ Goto("http_server")
          ELSE \E ok \in BOOLEAN :
                  IF ok
                     THEN /\ notBefore' = now
                          /\ lcfg' = lcfg
                          /\ Goto("snake_oil")
                     ELSE /\ notBefore' = notBefore
                          /\ lcfg' = lcfg
                          /\ Fatal("snake_oil_key")
    /\ UNCHANGED <<now, vaultVars, cfgVars, ctxVars, cert, key, hubDomain, store,
                   setCalls, tlsCert, hs, renewHandler, refreshVars, workerVars,
                   lastReq, observed>>

\* the validity of the self-signed certificate: 5 * 365 * 24 * time.Hour
ValidityWindow == 5 * 365 * 24

\* the rest of snakeOilCert (lines 360-375) and of the else branch:
\*   notAfter := notBefore.Add(5 * 365 * 24 * time.Hour)
\*   template := x509.Certificate{ NotBefore: time.Now(), NotAfter: notAfter, ... }
\* x509.CreateCertificate can fail, which is fatal
SnakeOilCert ==
    /\ At("snake_oil")
    /\ \E ok \in BOOLEAN :
          IF ok
             THEN /\ lcfg' = [source |-> "snakeoil", cert |-> 0,
                              notBefore |-> now,
                              notAfter |-> notBefore + ValidityWindow]
                  /\ Goto("http_server")
             ELSE /\ lcfg' = lcfg
                  /\ Fatal("snake_oil_cert")
    /\ UNCHANGED <<now, vaultVars, cfgVars, ctxVars, cert, key, hubDomain, store,
                   setCalls, tlsCert, hs, renewHandler, refreshVars, workerVars,
                   serveVars>>

\* hs := &http.Server{TLSConfig: lcfg, ...}
BuildHTTPServer ==
    /\ At("http_server")
    /\ hs' = TRUE
    /\ Goto("register_renew")
    /\ UNCHANGED <<now, vaultVars, cfgVars, ctxVars, cert, key, hubDomain, store,
                   setCalls, tlsCert, lcfg, renewHandler, refreshVars, workerVars,
                   serveVars>>

\* tlsmgr.RegisterRenewHandler(L, workq.GlobalRegistry), PrintHandlers
RegisterRenewHandler ==
    /\ At("register_renew")
    /\ renewHandler' = TRUE
    /\ Goto("start_worker")
    /\ UNCHANGED <<now, vaultVars, cfgVars, ctxVars, cert, key, hubDomain, store,
                   setCalls, tlsCert, lcfg, hs, refreshVars, workerVars,
                   serveVars>>

\* a worker started on a context of its own
StartWorkerOwnContext ==
    /\ At("start_worker")
    /\ worker' = "running"
    /\ workerCtx' = "background"
    /\ Goto("listen")
    /\ UNCHANGED <<now, vaultVars, cfgVars, ctxVars, tlsVars, refreshVars,
                   workerErr, workerLog,
                   serveVars>>

\* worker := workq.NewWorker(...); go func() { err := worker.Run(ctx, ...) ... }()
StartWorker ==
    /\ At("start_worker")
    /\ worker' = "running"
    /\ workerCtx' = ctx
    /\ Goto("listen")
    /\ UNCHANGED <<now, vaultVars, cfgVars, ctxVars, tlsVars, refreshVars,
                   workerErr, workerLog,
                   serveVars>>

\* err = hs.ListenAndServeTLS("", ""): the listener is bound and the accept
\* loop entered, or the call returns an error at once
ListenAndServeTLS ==
    /\ At("listen")
    /\ \E ok \in BOOLEAN :
          IF ok THEN Goto("serving") ELSE Fatal("listen")
    /\ UNCHANGED <<now, vaultVars, cfgVars, ctxVars, tlsVars, refreshVars, workerVars,
                   serveVars>>

\* the accept loop ends with an error: if err != nil { log.Fatal(err) }
ServeError ==
    /\ At("serving")
    /\ Fatal("serve")
    /\ UNCHANGED <<now, vaultVars, cfgVars, ctxVars, tlsVars, refreshVars, workerVars,
                   serveVars>>

\* ------------------------------------------------- the worker goroutine
\* what makes worker.Run return: an error of its own, or, once ctx is
\* cancelled, the end of its loop (context.Canceled, or nil)
WorkerErrors == {"other"} \cup (IF ctxCancelled THEN {"canceled", "nil"} ELSE {})

\* if err != nil { if err != context.Canceled { wl.Debug(...) } }
HandleWorkerErr(err) ==
    IF err # "nil"
       THEN IF err # "canceled" THEN "debug" ELSE "silent"
       ELSE "silent"

\* a worker goroutine that escalates an error of worker.Run
WorkerReturnFatal ==
    /\ Running
    /\ worker = "running"
    /\ \E err \in WorkerErrors :
          /\ worker' = "returned"
          /\ workerErr' = err
          /\ workerLog' = HandleWorkerErr(err)
          /\ IF err = "other"
                THEN Fatal("worker_run")
                ELSE UNCHANGED mainVars
    /\ UNCHANGED <<now, vaultVars, cfgVars, ctxVars, tlsVars, refreshVars, workerCtx,
                   serveVars>>

\* worker.Run returns and the goroutine ends
WorkerReturn ==
    /\ Running
    /\ worker = "running"
    /\ \E err \in WorkerErrors :
          /\ worker' = "returned"
          /\ workerErr' = err
          /\ workerLog' = HandleWorkerErr(err)
    /\ UNCHANGED <<mainVars, now, vaultVars, cfgVars, ctxVars, tlsVars, refreshVars,
                   workerCtx,
                   serveVars>>

\* ------------------------------------------- requests to the listener
\* the chunks of a Content-Type header value; << >> is the missing header
GrpcPrefix == <<"application/", "grpc">>
ContentTypes == { << >>, <<"application/", "grpc">>, <<"application/", "grpc", "+proto">>,
                  <<"application/", "json">>, <<"text/plain">> }
ProtoMajors == {1, 2}

\* if r.ProtoMajor == 2 && strings.HasPrefix(r.Header.Get("Content-Type"),
\*    "application/grpc") { gs.ServeHTTP(w, r) } else { s.ServeHTTP(w, r) }
Route(protoMajor, ctype) ==
    IF protoMajor = 2 /\ HasPrefix(ctype, GrpcPrefix) THEN {"grpc"} ELSE {"http"}

\* a Handler that routes on the content type alone
ServeRequestAnyProtocol ==
    /\ At("serving")
    /\ \E p \in ProtoMajors, ct \in ContentTypes :
          lastReq' = [proto |-> p, ctype |-> ct,
                      handler |-> IF HasPrefix(ct, GrpcPrefix) THEN {"grpc"} ELSE {"http"}]
    /\ UNCHANGED <<mainVars, now, vaultVars, cfgVars, ctxVars, tlsVars, refreshVars,
                   workerVars, notBefore, observed>>

\* the http.Server's Handler serves one request of the accept loop
ServeRequest ==
    /\ At("serving")
    /\ \E p \in ProtoMajors, ct \in ContentTypes :
          lastReq' = [proto |-> p, ctype |-> ct, handler |-> Route(p, ct)]
    /\ UNCHANGED <<mainVars, now, vaultVars, cfgVars, ctxVars, tlsVars, refreshVars,
                   workerVars, notBefore, observed>>

\* a handler of the server reads the hub TLS material that SetHubTLS set
ReadHubTLS ==
    /\ At("serving")
    /\ observed' = store
    /\ UNCHANGED <<mainVars, now, vaultVars, cfgVars, ctxVars, tlsVars, refreshVars,
                   workerVars, notBefore, lastReq>>

\* ------------------------------------------------------ specification
Next ==
    \/ NewVaultClient
    \/ CheckToken
    \/ ReadIdentity
    \/ Login
    \/ RenewTick
    \/ AdvanceClock
    \/ OpenDatabase
    \/ InitAWS
    \/ LoadDomain
    \/ NewManager
    \/ SetupRoute53
    \/ LoadTokens
    \/ StartHealthz
    \/ MakeContext
    \/ HubMaterial
    \/ NewServer
    \/ ComputeHubDomain
    \/ InstallHubTLS
    \/ StartRefresh
    \/ Certificate
    \/ RefreshTick
    \/ BuildTLSConfig
    \/ SnakeOilCert
    \/ BuildHTTPServer
    \/ RegisterRenewHandler
    \/ StartWorker
    \/ ListenAndServeTLS
    \/ ServeError
    \/ WorkerReturn

Spec == Init /\ [][Next]_vars

\* The server with its listener in use: started with an ambient Vault token
\* (VAULT_TOKEN), so that no login is made and no renewal goroutine runs,
\* and with requests and readers of the hub TLS material arriving.
InitServe == Init /\ token = "ambient"

NextServe ==
    \/ NewVaultClient
    \/ CheckToken
    \/ AdvanceClock
    \/ OpenDatabase
    \/ InitAWS
    \/ LoadDomain
    \/ NewManager
    \/ SetupRoute53
    \/ LoadTokens
    \/ StartHealthz
    \/ MakeContext
    \/ HubMaterial
    \/ NewServer
    \/ ComputeHubDomain
    \/ InstallHubTLS
    \/ StartRefresh
    \/ Certificate
    \/ RefreshTick
    \/ BuildTLSConfig
    \/ SnakeOilCert
    \/ BuildHTTPServer
    \/ RegisterRenewHandler
    \/ StartWorker
    \/ ListenAndServeTLS
    \/ ServeError
    \/ WorkerReturn
    \/ ServeRequest
    \/ ReadHubTLS

SpecServe == InitServe /\ [][NextServe]_vars

\* ================================================================ claims
Material(v, d) == [cert |-> CertBytes(v), key |-> KeyBytes(v), domain |-> d]
TickIndexes == 1..Len(ticks)

\* C1: a tick of the refresh loop whose RefreshFromVault fails leaves the
\* store (certificate, key, domain) exactly as it was before the tick.
C1_FailedRefreshKeepsStore ==
    \A i \in TickIndexes : ~ticks[i].ok => ticks[i].after = ticks[i].before

C1_Witness ==
    \E i \in TickIndexes :
        /\ ~ticks[i].ok
        /\ ticks[i].before # EmptyStore
        /\ store = ticks[i].before

\* C2: a tick whose fetch succeeds leaves the store holding exactly the
\* fetched certificate and key; a failed tick followed by a successful one
\* leaves the old value after the first and the fetched one after the second.
C2_SuccessfulRefreshReplaces ==
    /\ \A i \in TickIndexes :
          ticks[i].ok => ticks[i].after = Material(ticks[i].fetched, hubDomain)
    /\ \A i \in TickIndexes :
          (i < Len(ticks) /\ ~ticks[i].ok /\ ticks[i + 1].ok) =>
              /\ ticks[i].after = ticks[i].before
              /\ ticks[i + 1].before = ticks[i].before
              /\ ticks[i + 1].after = Material(ticks[i + 1].fetched, hubDomain)

C2_Witness ==
    /\ Len(ticks) >= 2
    /\ ~ticks[1].ok
    /\ ticks[2].ok
    /\ ticks[2].after # ticks[1].before
    /\ store = ticks[2].after

\* C3: once SetHubTLS has been called, the store holds one whole material
\* (a certificate and the key fetched with it) whatever refreshes follow.
C3_StoreHoldsOneMaterial ==
    setCalls > 0 =>
        \E v \in Versions : store = Material(v, hubDomain)

C3_Witness ==
    /\ setCalls > 1
    /\ \E i, j \in TickIndexes : ticks[i].ok /\ ~ticks[j].ok
    /\ \E v \in Versions : store = Material(v, hubDomain)

\* C4 as stated: whenever the accept loop has been entered, SetHubTLS has
\* been called, with the managed system or with the self-signed fallback.
C4_StorePopulatedBeforeAccept ==
    pc = "serving" => setCalls > 0

\* C4 amended: with a certificate manager the store is populated before the
\* accept loop is entered; without one SetHubTLS is never called.
C4_ManagedStorePopulatedBeforeAccept ==
    /\ (pc = "serving" /\ tlsmgr # "nil") => (setCalls > 0 /\ store # EmptyStore)
    /\ (tlsmgr = "nil") => (setCalls = 0 /\ store = EmptyStore)

C4_Witness ==
    /\ pc = "serving"
    /\ tlsmgr # "nil"
    /\ setCalls > 0
    /\ Len(ticks) = 0

\* C5: start-up is sequential: the credential bootstrap is over (login done,
\* or skipped) before HubMaterial is fetched, the material is fetched before
\* the TLS config and the http.Server are built, and those are built before
\* the accept loop is entered.
BootstrapDone == token # "" \/ idFile \in {"absent", "denied"}
MaterialFetched == cert # Nil /\ key # Nil
ListenerBuilt == lcfg # NoConfig /\ hs

C5_StartupSequential ==
    /\ MaterialFetched => BootstrapDone
    /\ (lcfg # NoConfig \/ hs) => (BootstrapDone /\ (tlsmgr # "nil" => MaterialFetched))
    /\ hs => lcfg # NoConfig
    /\ pc = "serving" => ListenerBuilt

C5_Witness ==
    /\ pc = "serving"
    /\ token = "login"
    /\ MaterialFetched
    /\ lcfg.source = "managed"

\* C6 as stated: for every lease the login or a renewal is granted, a
\* renewal is attempted strictly before issuedAt + lease.
C6_RenewalBeforeExpiry ==
    (cred # NoCred /\ now >= cred.issuedAt + cred.lease) => renewAttempts > 0

\* C7: a failed RenewSelf neither ends the renewal loop nor the process:
\* after any number of failures in a row the loop waits for its next tick.
C7_RenewalLoopSurvivesFailure ==
    renewFails > 0 =>
        /\ renewLoop = "waiting"
        /\ fatalAt # "renew_self"
        /\ now <= renewNext
        /\ renewNext <= now + TickerPeriod

C7_Witness ==
    /\ renewFails >= 2
    /\ renewLoop = "waiting"
    /\ Running
    /\ renewNext > now

C9_WorkerErrorNotFatal ==
    /\ fatalAt # "worker_run"
    /\ worker = "returned" =>
          workerLog = (IF workerErr = "other" THEN "debug" ELSE "silent")
    /\ \A err \in {"nil", "canceled", "other"} :
          HandleWorkerErr(err) \in {"debug", "silent"}
    /\ HandleWorkerErr("canceled") = "silent"

C9_Witness ==
    /\ worker = "returned"
    /\ workerErr = "other"
    /\ workerLog = "debug"
    /\ pc = "serving"
    /\ Running

\* C10: with no ambient token and the identity file read, a login that
\* returns a nil secret ends start-up with a fatal error before the healthz
\* listener, the TLS listener or the renewal loop has been started.
C10_NilLoginFatalBeforeListeners ==
    loginResult = "nil" =>
        /\ procState = "fatal"
        /\ fatalAt = "login_nil"
        /\ ~healthz
        /\ lcfg = NoConfig
        /\ ~hs
        /\ pc # "serving"
        /\ renewLoop = "none"

C10_Witness ==
    /\ loginResult = "nil"
    /\ token = ""
    /\ idFile = "closed"
    /\ procState = "fatal"

\* C11: with the identity file absent the login is skipped without a fatal
\* error, no renewal loop is started, the client token stays as it was and
\* start-up goes on; a renewal loop exists only after a login that returned
\* a credential.
BootstrapFatal == fatalAt \in {"open_idfile", "read_idfile", "login_err", "login_nil"}

C11_AbsentIdentitySkipsLogin ==
    /\ idFile = "absent" =>
          /\ token = ""
          /\ loginResult = "none"
          /\ cred = NoCred
          /\ renewLoop = "none"
          /\ ~BootstrapFatal
          /\ pc \notin {"check_token", "read_idfile", "login"}
    /\ renewLoop # "none" =>
          /\ loginResult = "ok"
          /\ cred # NoCred
          /\ token = "login"

C11_Witness ==
    /\ idFile = "absent"
    /\ token = ""
    /\ renewLoop = "none"
    /\ cert # Nil
    /\ pc = "serving"

\* C12 as stated: with no ambient token, an identity file that is there but
\* cannot be read, at os.Open or at ReadAll, ends start-up in a fatal error.
C12_UnreadableIdentityFatal ==
    /\ idFile = "denied" => (procState = "fatal" /\ BootstrapFatal)
    /\ (idFile = "open" /\ pc = "read_idfile" /\ procState = "fatal") =>
          fatalAt = "read_idfile"

\* C13: without a certificate manager, every listener that is built holds
\* the self-signed certificate, and once that certificate is selected no
\* step up to ListenAndServeTLS (the renew-handler registration on the nil
\* manager included) ends the process: only the listener itself can fail.
C13_SelfSignedListenerStarts ==
    tlsmgr = "nil" =>
        /\ hs => lcfg.source = "snakeoil"
        /\ pc \in {"register_renew", "start_worker", "listen", "serving"} =>
              (hs /\ lcfg.source = "snakeoil")
        /\ pc = "serving" => (renewHandler /\ worker # "none")
        /\ (lcfg.source = "snakeoil" /\ procState = "fatal") =>
              fatalAt \in {"listen", "serve"}

C13_Witness ==
    /\ tlsmgr = "nil"
    /\ pc = "serving"
    /\ Running
    /\ lcfg.source = "snakeoil"
    /\ renewHandler

\* C15: with the managed system the listener's TLS configuration holds the
\* certificate fetched at start-up, and stays so after every refresh tick,
\* successful or not: a refresh changes the store only.
C15_ListenerKeepsStartupCertificate ==
    lcfg.source = "managed" =>
        /\ tlsmgr # "nil"
        /\ cert # Nil
        /\ lcfg.cert = cert.v
        /\ lcfg.cert = tlsCert

C15_Witness ==
    /\ lcfg.source = "managed"
    /\ pc = "serving"
    /\ \E i, j \in TickIndexes :
          /\ ticks[i].ok
          /\ ticks[i].fetched # lcfg.cert
          /\ ~ticks[j].ok
    /\ store.cert # cert

\* C17 as stated: the self-signed certificate has NotAfter after NotBefore
\* and NotAfter - NotBefore equal to the validity window, however the clock
\* moves while it is generated.
C17_ValidityWindowExact ==
    lcfg.source = "snakeoil" =>
        /\ lcfg.notAfter > lcfg.notBefore
        /\ lcfg.notAfter - lcfg.notBefore = ValidityWindow

\* C18: snakeOilCert is called, and its certificate installed, only without
\* a certificate manager; with one, a listener configuration that is built
\* holds the managed certificate.
SnakeOilCalled ==
    \/ pc = "snake_oil"
    \/ notBefore >= 0
    \/ lcfg.source = "snakeoil"
    \/ fatalAt \in {"snake_oil_key", "snake_oil_cert"}

C18_SnakeOilOnlyWithoutManager ==
    /\ SnakeOilCalled => tlsmgr = "nil"
    /\ (tlsmgr # "nil" /\ pc \in {"http_server", "register_renew", "start_worker",
                                  "listen", "serving"}) =>
          /\ lcfg.source = "managed"
          /\ lcfg.cert = tlsCert
          /\ tlsCert \in Versions

C18_Witness ==
    /\ tlsmgr # "nil"
    /\ pc = "serving"
    /\ lcfg.source = "managed"
    /\ ~SnakeOilCalled

\* C19: the start-up material is written to the store before the refresh
\* loop is started and only once, so the store always holds the material of
\* the latest successful fetch, and every write carries the configured
\* domain without its leading "*.".
OkTicks == {i \in TickIndexes : ticks[i].ok}
LastFetched ==
    IF OkTicks = {} THEN cert.v
    ELSE ticks[CHOOSE i \in OkTicks : \A j \in OkTicks : j <= i].fetched

C19_StoreHoldsLatestFetch ==
    /\ refreshLoop # "none" => setCalls >= 1
    /\ setCalls = 0 => ticks = << >>
    /\ setCalls > 0 =>
          /\ setCalls = 1 + Cardinality(OkTicks)
          /\ store = Material(LastFetched, TrimWildcard(domain))
    /\ \A i \in TickIndexes :
          /\ ticks[i].before.domain = TrimWildcard(domain)
          /\ ticks[i].after.domain = TrimWildcard(domain)

C19_Witness ==
    /\ setCalls >= 2
    /\ domain = <<"*", ".", "h">>
    /\ store.domain = <<"h">>
    /\ store.cert # cert
    /\ store = Material(LastFetched, <<"h">>)

\* C14: every request is dispatched to exactly one handler: to the gRPC
\* server if and only if its protocol major version is 2 and its
\* Content-Type begins with "application/grpc", else to the HTTP handler,
\* whatever else the state of the server is.
BeginsWithGrpc(ctype) ==
    /\ Len(ctype) >= 2
    /\ ctype[1] = "application/"
    /\ ctype[2] = "grpc"

C14_RoutingRule ==
    /\ lastReq # NoRequest =>
          /\ Cardinality(lastReq.handler) = 1
          /\ lastReq.handler \subseteq {"grpc", "http"}
          /\ ("grpc" \in lastReq.handler) <=>
                (lastReq.proto = 2 /\ BeginsWithGrpc(lastReq.ctype))
    /\ \A p \in ProtoMajors, ct \in ContentTypes :
          /\ Cardinality(Route(p, ct)) = 1
          /\ (Route(p, ct) = {"grpc"}) <=> (p = 2 /\ BeginsWithGrpc(ct))

C14_Witness ==
    /\ lastReq.proto = 2
    /\ lastReq.ctype = <<"application/", "grpc", "+proto">>
    /\ lastReq.handler = {"grpc"}
    /\ \E i \in TickIndexes : ticks[i].ok
    /\ store.cert # cert

\* C16: whatever the interleaving of the refresh loop's writes with a read
\* of the store, what a reader sees is whole: the start-up material or the
\* material of one refresh, with the domain of the writes, never a mixture.
C16_ReaderSeesWholeMaterial ==
    observed # NotObserved =>
        IF tlsmgr = "nil"
           THEN observed = EmptyStore
           ELSE \E v \in Versions :
                   /\ observed = Material(v, hubDomain)
                   /\ \/ CertBytes(v) = cert
                      \/ \E i \in TickIndexes : ticks[i].ok /\ ticks[i].fetched = v

C16_Witness ==
    /\ observed # NotObserved
    /\ tlsmgr # "nil"
    /\ observed.cert # cert
    /\ observed # store
    /\ \E i \in TickIndexes : ticks[i].ok /\ observed = ticks[i].after

====
